---- MODULE Spec2Model ----
(***************************************************************************)
(* Model of mobile-checker-go: the Ofcom dataset lifecycle (Setup,         *)
(* downloadData, buildDatabase, QueryPostcode), the coverage interpreter   *)
(* (Interpret) and the check orchestration (Check, CheckMultiple).         *)
(*                                                                         *)
(* Strings the code inspects character by character (postcodes, CSV cells, *)
(* CSV headers, the --year argument) are sequences of one-character        *)
(* strings; Str turns such a sequence into a TLA+ string where the code    *)
(* only compares it as a whole (column names, file paths, displays).       *)
(***************************************************************************)
EXTENDS Integers, Sequences, FiniteSets, TLC

VARIABLES
    csv,        \* raw artifacts on disk: file path -> NoFile or sequence of CSV records
    db,         \* DBPath (mobile.db): NoFile or the SQLite database content
    setupRet,   \* what the last Setup call did and returned
    postcodes,  \* CheckMultiple: the input slice
    results,    \* CheckMultiple: the results slice
    ch,         \* CheckMultiple: the buffered channel
    wpc,        \* position of each goroutine
    wres,       \* the Result each goroutine's Check call has built
    wcalls,     \* the calls Lookup and QueryPostcode each goroutine has made, with outcomes
    mpc,        \* position of the CheckMultiple caller
    received,   \* the idx of the items received so far; its length is the loop position
    row,        \* Interpret: the input row
    summary,    \* Interpret: the returned MobileSummary
    rawPc,      \* Normalise: the postcode string a caller passes to Check
    checkKey,   \* Normalise: `normalised` in Check
    queryKey    \* Normalise: `pc` in QueryPostcode, computed from `normalised`

vars == <<csv, db, setupRet, postcodes, results, ch, wpc, wres, wcalls,
          mpc, received, row, summary, rawPc, checkKey, queryKey>>

fsVars == <<csv, db, setupRet>>
cmVars == <<postcodes, results, ch, wpc, wres, wcalls, mpc, received>>
inVars == <<row, summary>>
nzVars == <<rawPc, checkKey, queryKey>>

\* an absent value (a nil pointer, a nil map, a file that does not exist) is
\* the empty sequence and a present value v the one-element sequence <<v>>
Nil == <<>>
NoFile == <<>>
Some(v) == <<v>>

\* a nil error
None == "nil"

(***************************************************************************)
(* Bounds                                                                  *)
(***************************************************************************)
MaxN == 2          \* longest postcode list handed to CheckMultiple
MaxEdits == 1      \* cells changed in a base row before Interpret is applied
MaxLen == 3        \* longest enumerated postcode string handed to Normalise
MaxRows == 3       \* most rows of a store that a rebuild is followed appending to

(***************************************************************************)
(* strings, strconv, fmt                                                   *)
(***************************************************************************)
RECURSIVE Str(_)
Str(s) == IF s = <<>> THEN "" ELSE Head(s) \o Str(Tail(s))

Digits == <<"0", "1", "2", "3", "4", "5", "6", "7", "8", "9">>

IsDigit(c) == \E i \in 1..10 : Digits[i] = c

DigitVal(c) == (CHOOSE i \in 1..10 : Digits[i] = c) - 1

LowerCase == <<"a", "b", "c", "d", "e", "f", "g", "h", "i", "j", "k", "l", "m",
               "n", "o", "p", "q", "r", "s", "t", "u", "v", "w", "x", "y", "z">>

UpperCase == <<"A", "B", "C", "D", "E", "F", "G", "H", "I", "J", "K", "L", "M",
               "N", "O", "P", "Q", "R", "S", "T", "U", "V", "W", "X", "Y", "Z">>

ToUpperChar(c) ==
    IF \E i \in 1..26 : LowerCase[i] = c
    THEN UpperCase[CHOOSE i \in 1..26 : LowerCase[i] = c]
    ELSE c

ToLowerChar(c) ==
    IF \E i \in 1..26 : UpperCase[i] = c
    THEN LowerCase[CHOOSE i \in 1..26 : UpperCase[i] = c]
    ELSE c

ToUpper(s) == [i \in 1..Len(s) |-> ToUpperChar(s[i])]

ToLower(s) == [i \in 1..Len(s) |-> ToLowerChar(s[i])]

\* unicode.IsSpace on the characters the model uses
IsSpace(c) == c \in {" ", "\t", "\n", "\r"}

RECURSIVE TrimLeft(_)
TrimLeft(s) == IF s # <<>> /\ IsSpace(Head(s)) THEN TrimLeft(Tail(s)) ELSE s

RECURSIVE TrimRight(_)
TrimRight(s) ==
    IF s # <<>> /\ IsSpace(s[Len(s)]) THEN TrimRight(SubSeq(s, 1, Len(s) - 1)) ELSE s

TrimSpace(s) == TrimRight(TrimLeft(s))

\* strings.ReplaceAll(s, old, new) for a one-character old
RECURSIVE ReplaceAll(_, _, _)
ReplaceAll(s, old, new) ==
    IF s = <<>> THEN <<>>
    ELSE (IF Head(s) = old THEN new ELSE <<Head(s)>>) \o ReplaceAll(Tail(s), old, new)

RECURSIVE Pow10(_)
Pow10(n) == IF n = 0 THEN 1 ELSE 10 * Pow10(n - 1)

RECURSIVE DigitsValue(_)
DigitsValue(s) ==
    IF s = <<>> THEN 0 ELSE 10 * DigitsValue(SubSeq(s, 1, Len(s) - 1)) + DigitVal(s[Len(s)])

AllDigits(s) == \A i \in 1..Len(s) : IsDigit(s[i])

\* the index of the first character of s that is in cs, Len(s) + 1 if none
RECURSIVE IndexAny(_, _, _)
IndexAny(s, cs, i) ==
    IF i > Len(s) \/ s[i] \in cs THEN i ELSE IndexAny(s, cs, i + 1)

\* digits with an optional point and at least one digit
ParseMantissa(ip, fp) ==
    [ok    |-> AllDigits(ip) /\ AllDigits(fp) /\ Len(ip) + Len(fp) >= 1,
     mant  |-> IF AllDigits(ip) /\ AllDigits(fp) THEN DigitsValue(ip \o fp) ELSE 0,
     scale |-> Len(fp)]

\* the exponent part: absent, or "e" with an optional sign and digits
ParseExponent(ex) ==
    IF ex = <<>> THEN [ok |-> TRUE, exp |-> 0]
    ELSE IF Len(ex) >= 2 /\ ex[2] \in {"+", "-"}
    THEN [ok  |-> Len(ex) >= 3 /\ AllDigits(SubSeq(ex, 3, Len(ex))),
          exp |-> IF Len(ex) >= 3 /\ AllDigits(SubSeq(ex, 3, Len(ex)))
                  THEN (IF ex[2] = "-" THEN 0 - DigitsValue(SubSeq(ex, 3, Len(ex)))
                        ELSE DigitsValue(SubSeq(ex, 3, Len(ex))))
                  ELSE 0]
    ELSE [ok  |-> Len(ex) >= 2 /\ AllDigits(Tail(ex)),
          exp |-> IF AllDigits(Tail(ex)) THEN DigitsValue(Tail(ex)) ELSE 0]

\* mant * 10^exp / 10^scale as a mantissa and a non-negative scale
Scaled(neg, m, x) ==
    IF ~m.ok \/ ~x.ok THEN [err |-> TRUE, neg |-> FALSE, mant |-> 0, scale |-> 0]
    ELSE IF m.scale - x.exp < 0
    THEN [err |-> FALSE, neg |-> neg, mant |-> m.mant * Pow10(x.exp - m.scale), scale |-> 0]
    ELSE [err |-> FALSE, neg |-> neg, mant |-> m.mant, scale |-> m.scale - x.exp]

ParseUnsigned(neg, body, e, dot) ==
    Scaled(neg,
           ParseMantissa(SubSeq(body, 1, dot - 1), SubSeq(body, dot + 1, e - 1)),
           ParseExponent(SubSeq(body, e, Len(body))))

\* strconv.ParseFloat(v, 64) on decimal literals: an optional sign, digits
\* with an optional point and at least one digit, an optional exponent.
\* The value is (-1)^neg * mant / 10^scale.  Infinities, NaN, hexadecimal
\* literals and range errors are not modelled, and the literals of the
\* model have few enough digits for the nearest float64 to compare with 0.5
\* as the decimal does.
ParseFloat(v) ==
    LET body == IF v # <<>> /\ Head(v) \in {"+", "-"} THEN Tail(v) ELSE v
        e    == IndexAny(body, {"e", "E"}, 1)
    IN  ParseUnsigned(v # <<>> /\ Head(v) = "-", body, e,
                      IndexAny(SubSeq(body, 1, e - 1), {"."}, 1))

RECURSIVE Itoa(_)
Itoa(n) == IF n < 10 THEN Digits[n + 1] ELSE Itoa(n \div 10) \o Digits[(n % 10) + 1]

\* fmt.Sprintf("%.0f%%", f*100): f*100 rounded to a whole number, ties to even
FormatPercent(f) ==
    LET num  == f.mant * 100
        den  == Pow10(f.scale)
        q    == num \div den
        r    == num % den
        n    == IF 2 * r > den \/ (2 * r = den /\ q % 2 = 1) THEN q + 1 ELSE q
    IN  (IF f.neg THEN "-" ELSE "") \o Itoa(n) \o "%"

(***************************************************************************)
(* ofcom.Interpret                                                         *)
(***************************************************************************)
RECURSIVE get(_, _)
get(r, keys) ==
    IF keys = <<>> THEN <<>>
    ELSE IF Head(keys) \in DOMAIN r /\ r[Head(keys)] # <<>> THEN r[Head(keys)]
    ELSE get(r, Tail(keys))

covered_strict(r, keys) ==
    LET v == get(r, keys)
        f == ParseFloat(v)
    IN  IF v = <<>> THEN FALSE
        ELSE IF f.err THEN FALSE
        ELSE (~f.neg) /\ 2 * f.mant > Pow10(f.scale)

covered(r, keys) ==
    LET v == get(r, keys)
        f == ParseFloat(v)
    IN  IF v = <<>> THEN FALSE
        ELSE IF f.err THEN FALSE
        ELSE (~f.neg) /\ 2 * f.mant >= Pow10(f.scale)

pct_primaryOnly(r, keys) ==
    LET v == get(r, <<Head(keys)>>)
        f == ParseFloat(v)
    IN  IF v = <<>> THEN "N/A"
        ELSE IF f.err THEN "N/A"
        ELSE FormatPercent(f)

pct(r, keys) ==
    LET v == get(r, keys)
        f == ParseFloat(v)
    IN  IF v = <<>> THEN "N/A"
        ELSE IF f.err THEN "N/A"
        ELSE FormatPercent(f)

operators(r) ==
    << [Name     |-> "EE",
        Voice    |-> pct(r, <<"ee_voice", "ee_voice_indoor">>),
        FourG    |-> pct(r, <<"ee_4g", "ee4g">>),
        FiveG    |-> pct(r, <<"ee_5g", "ee5g">>),
        HasVoice |-> covered(r, <<"ee_voice", "ee_voice_indoor">>),
        HasFourG |-> covered(r, <<"ee_4g", "ee4g">>),
        HasFiveG |-> covered(r, <<"ee_5g", "ee5g">>)],
       [Name     |-> "O2",
        Voice    |-> pct(r, <<"o2_voice", "o2_voice_indoor">>),
        FourG    |-> pct(r, <<"o2_4g", "o24g">>),
        FiveG    |-> pct(r, <<"o2_5g", "o25g">>),
        HasVoice |-> covered(r, <<"o2_voice", "o2_voice_indoor">>),
        HasFourG |-> covered(r, <<"o2_4g", "o24g">>),
        HasFiveG |-> covered(r, <<"o2_5g", "o25g">>)],
       [Name     |-> "Three",
        Voice    |-> pct(r, <<"three_voice", "three_voice_indoor">>),
        FourG    |-> pct(r, <<"three_4g", "three4g">>),
        FiveG    |-> pct(r, <<"three_5g", "three5g">>),
        HasVoice |-> covered(r, <<"three_voice", "three_voice_indoor">>),
        HasFourG |-> covered(r, <<"three_4g", "three4g">>),
        HasFiveG |-> covered(r, <<"three_5g", "three5g">>)],
       [Name     |-> "Vodafone",
        Voice    |-> pct(r, <<"vodafone_voice", "vodafone_voice_indoor">>),
        FourG    |-> pct(r, <<"vodafone_4g", "vodafone4g">>),
        FiveG    |-> pct(r, <<"vodafone_5g", "vodafone5g">>),
        HasVoice |-> covered(r, <<"vodafone_voice", "vodafone_voice_indoor">>),
        HasFourG |-> covered(r, <<"vodafone_4g", "vodafone4g">>),
        HasFiveG |-> covered(r, <<"vodafone_5g", "vodafone5g">>)] >>

RECURSIVE fourGCount_untilMiss(_)
fourGCount_untilMiss(ops) ==
    IF ops = <<>> \/ ~Head(ops).HasFourG THEN 0
    ELSE 1 + fourGCount_untilMiss(Tail(ops))

\* the counting loop over the operators slice
RECURSIVE fourGCount(_)
fourGCount(ops) ==
    IF ops = <<>> THEN 0
    ELSE (IF Head(ops).HasFourG THEN 1 ELSE 0) + fourGCount(Tail(ops))

RECURSIVE fiveGCount(_)
fiveGCount(ops) ==
    IF ops = <<>> THEN 0
    ELSE (IF Head(ops).HasFiveG THEN 1 ELSE 0) + fiveGCount(Tail(ops))

Interpret_presentOnly(r) ==
    LET all == operators(r)
        ops == SelectSeq(all, LAMBDA o : o.Voice # "N/A" \/ o.FourG # "N/A" \/ o.FiveG # "N/A")
    IN  [Postcode  |-> Str(get(r, <<"postcode">>)),
         Operators |-> ops,
         Overall   |-> [AnyOperator |-> pct(r, <<"any_operator", "any_coverage">>),
                        FourGCount  |-> fourGCount(ops),
                        FiveGCount  |-> fiveGCount(ops)]]

Interpret(r) ==
    LET ops == operators(r)
    IN  [Postcode  |-> Str(get(r, <<"postcode">>)),
         Operators |-> ops,
         Overall   |-> [AnyOperator |-> pct(r, <<"any_operator", "any_coverage">>),
                        FourGCount  |-> fourGCount(ops),
                        FiveGCount  |-> fiveGCount(ops)]]

(***************************************************************************)
(* Rows handed to Interpret: the rows of the package's tests, a row of an  *)
(* edition that uses the alias column names, and the empty row, each with  *)
(* up to MaxEdits cells set or removed.                                    *)
(***************************************************************************)
Columns ==
    {"postcode", "any_operator", "any_coverage", "unknown_column",
     "ee_voice", "ee_voice_indoor", "ee_4g", "ee4g", "ee_5g", "ee5g",
     "o2_voice", "o2_voice_indoor", "o2_4g", "o24g", "o2_5g", "o25g",
     "three_voice", "three_voice_indoor", "three_4g", "three4g", "three_5g", "three5g",
     "vodafone_voice", "vodafone_voice_indoor", "vodafone_4g", "vodafone4g",
     "vodafone_5g", "vodafone5g"}

CellValues ==
    { <<>>,
      <<"0", ".", "3">>,
      <<"0", ".", "4", "9", "9", "9", "9", "9">>,
      <<"0", ".", "5">>,
      <<"0", ".", "8">>,
      <<"5", "e", "-", "1">>,
      <<"-", "0", ".", "7">>,
      <<" ", "0", ".", "9">>,
      <<"a", "b", "c">> }

EmptyRow == [k \in {} |-> <<>>]

FullRow ==
    [k \in {"postcode", "ee_4g", "o2_4g", "three_4g", "vodafone_4g",
            "ee_5g", "o2_5g", "three_5g", "vodafone_5g",
            "ee_voice", "o2_voice", "three_voice", "vodafone_voice"} |->
        CASE k = "postcode"       -> <<"S", "W", "1", "A", "1", "A", "A">>
          [] k = "ee_4g"          -> <<"1", ".", "0">>
          [] k = "o2_4g"          -> <<"0", ".", "9", "5">>
          [] k = "three_4g"       -> <<"0", ".", "8", "8">>
          [] k = "vodafone_4g"    -> <<"0", ".", "7", "2">>
          [] k = "ee_5g"          -> <<"0", ".", "6", "0">>
          [] k = "o2_5g"          -> <<"0", ".", "0">>
          [] k = "three_5g"       -> <<"0", ".", "0">>
          [] k = "vodafone_5g"    -> <<"0", ".", "5", "5">>
          [] k = "ee_voice"       -> <<"1", ".", "0">>
          [] k = "o2_voice"       -> <<"1", ".", "0">>
          [] k = "three_voice"    -> <<"0", ".", "9", "0">>
          [] k = "vodafone_voice" -> <<"0", ".", "8", "5">>]

MissingColumnsRow == [k \in {"postcode"} |-> <<"E", "C", "1", "A", "1", "B", "B">>]

PartialCoverageRow ==
    [k \in {"postcode", "ee_4g", "o2_4g"} |->
        CASE k = "postcode" -> <<"L", "S", "1", "1", "A", "A">>
          [] k = "ee_4g"    -> <<"0", ".", "3">>
          [] k = "o2_4g"    -> <<"0", ".", "8">>]

AliasRow ==
    [k \in {"postcode", "ee_4g", "ee4g", "o24g", "three_5g", "three5g",
            "vodafone_voice_indoor", "any_coverage"} |->
        CASE k = "postcode"              -> <<"W", "1", "A", "0", "A", "X">>
          [] k = "ee_4g"                 -> <<>>
          [] k = "ee4g"                  -> <<"0", ".", "8">>
          [] k = "o24g"                  -> <<"0", ".", "3">>
          [] k = "three_5g"              -> <<"a", "b", "c">>
          [] k = "three5g"               -> <<"0", ".", "8">>
          [] k = "vodafone_voice_indoor" -> <<"0", ".", "5">>
          [] k = "any_coverage"          -> <<"1">>]

BaseRows == {EmptyRow, FullRow, MissingColumnsRow, PartialCoverageRow, AliasRow}

PutCell(r, k, v) == [c \in DOMAIN r \cup {k} |-> IF c = k THEN v ELSE r[c]]

DeleteCell(r, k) == [c \in DOMAIN r \ {k} |-> r[c]]

RECURSIVE EditedRows(_)
EditedRows(n) ==
    IF n = 0 THEN BaseRows
    ELSE LET R == EditedRows(n - 1)
         IN  R \cup {PutCell(r, k, v) : r \in R, k \in Columns, v \in CellValues}
               \cup {DeleteCell(r, k) : r \in R, k \in Columns}

\* a caller applies Interpret to its row
InterpretRow ==
    /\ summary = Nil
    /\ summary' = Some(Interpret(row))
    /\ UNCHANGED <<row, fsVars, cmVars, nzVars>>

(***************************************************************************)
(* path/filepath                                                           *)
(***************************************************************************)
\* the "/"-separated elements of a path
RECURSIVE Split(_, _)
Split(s, cur) ==
    IF s = <<>> THEN <<cur>>
    ELSE IF Head(s) = "/" THEN <<cur>> \o Split(Tail(s), <<>>)
    ELSE Split(Tail(s), Append(cur, Head(s)))

\* filepath.Clean on the elements of a relative path: "" and "." are
\* dropped, ".." removes the element before it
RECURSIVE Clean(_, _)
Clean(elems, out) ==
    IF elems = <<>> THEN out
    ELSE LET e == Str(Head(elems))
         IN  IF e = "" \/ e = "." THEN Clean(Tail(elems), out)
             ELSE IF e = ".." /\ out # <<>> /\ out[Len(out)] # ".."
                  THEN Clean(Tail(elems), SubSeq(out, 1, Len(out) - 1))
             ELSE Clean(Tail(elems), Append(out, e))

RECURSIVE JoinElems(_)
JoinElems(elems) ==
    IF elems = <<>> THEN "."
    ELSE IF Len(elems) = 1 THEN Head(elems)
    ELSE Head(elems) \o "/" \o JoinElems(Tail(elems))

\* filepath.Join(dir, name)
Join(dir, name) == JoinElems(Clean(Split(dir \o <<"/">> \o name, <<>>), <<>>))

(***************************************************************************)
(* ofcom.Manager: Setup, downloadData, buildDatabase                       *)
(***************************************************************************)
DataDir == <<"d", "a", "t", "a">>

DBPath == Join(DataDir, <<"m", "o", "b", "i", "l", "e", ".", "d", "b">>)

Y2023 == <<"2", "0", "2", "3">>
Y2022 == <<"2", "0", "2", "2">>

\* the map literal, keyed by year; the values stand for the two URLs
MobileDataURLs == [y \in {"2023", "2022"} |-> "url_" \o y]

\* values of the --year flag: the two editions, an edition that is not in
\* the table, and a second spelling that is not in the table either
Years ==
    { Y2023, Y2022,
      <<"1", "9", "9", "9">>,
      <<"x", "/", ".", ".", "/", "o", "f", "c", "o", "m", "_", "m", "o", "b", "i", "l", "e",
        "_", "2", "0", "2", "3">> }

csvPath(year) ==
    Join(DataDir, <<"o", "f", "c", "o", "m", "_", "m", "o", "b", "i", "l", "e", "_">>
                  \o year \o <<".", "c", "s", "v">>)

CsvPaths == {csvPath(y) : y \in Years}

\* the CSV inside the archive each URL serves: a header record, then the
\* data records.  The 2022 edition names its columns differently and has
\* one record with the wrong number of fields.
RemoteCSV(url) ==
    IF url = "url_2023"
    THEN << << <<"p", "o", "s", "t", "c", "o", "d", "e">>, <<"e", "e", "_", "4", "g">>,
               <<"o", "2", "_", "4", "g">> >>,
            << <<"S", "W", "1", "A", " ", "1", "A", "A">>, <<"0", ".", "8">>, <<"0", ".", "3">> >>,
            << <<"e", "c", "1", "a", "1", "b", "b">>, <<"0", ".", "5">>, <<>> >> >>
    ELSE << << <<"P", "o", "s", "t", "c", "o", "d", "e">>, <<"E", "E", "4", "G">> >>,
            << <<"b", "a", "d">> >>,
            << <<"s", "w", "1", "a", "1", "a", "a">>, <<"0", ".", "3">> >> >>

EmptyDB == [table |-> FALSE, cols |-> <<>>, rows |-> <<>>, indexed |-> FALSE]

\* outcomes of the network, the archive and the disk that the code reacts to
DownloadOutcomes == {"ok", "http", "copy"}

\* line 97
needsDownload(artifact, force) == artifact = NoFile \/ force

needsBuild_always(store, force) == TRUE

\* line 105
needsBuild(store, force) == store = NoFile \/ force

\* downloadData: the new content of csvPath and the error.  `net` is the
\* outcome of the request and of the copy, `copied` the records io.Copy
\* wrote before it failed.
downloadData(year, old, net, copied) ==
    IF Str(year) \notin DOMAIN MobileDataURLs
    THEN [err |-> "no URL for year", file |-> old]
    ELSE LET data == RemoteCSV(MobileDataURLs[Str(year)])
         IN  IF net = "http" THEN [err |-> "http", file |-> old]
             ELSE IF net = "copy"
                  THEN [err |-> "copy", file |-> Some(SubSeq(data, 1, copied))]
             ELSE [err |-> None, file |-> Some(data)]

\* line 201
NormaliseHeader(h) == Str(ToLower(TrimSpace(ReplaceAll(h, " ", <<"_">>))))

Normalise_noTrim(pc) == ToUpper(ReplaceAll(pc, " ", <<>>))

\* line 232, line 266 and postcode.Normalise
Normalise(pc) == ToUpper(ReplaceAll(TrimSpace(pc), " ", <<>>))

NormaliseRecord_raw(headers, record) == record

\* lines 230-234
NormaliseRecord(headers, record) ==
    [i \in 1..Len(record) |->
        IF headers[i] = "postcode" THEN Normalise(record[i]) ELSE record[i]]

\* the read loop: records with the wrong number of fields are skipped, an
\* insert whose position is in `lost` fails and its error is dropped
RECURSIVE InsertRows(_, _, _, _)
InsertRows(headers, records, lost, count) ==
    IF records = <<>> THEN <<>>
    ELSE IF Len(Head(records)) # Len(headers)
         THEN InsertRows(headers, Tail(records), lost, count)
    ELSE (IF (count + 1) \in lost THEN <<>>
          ELSE <<NormaliseRecord(headers, Head(records))>>)
         \o InsertRows(headers, Tail(records), lost, count + 1)

HasDuplicates(seq) == \E i, j \in 1..Len(seq) : i # j /\ seq[i] = seq[j]

\* buildDatabase on the artifact `file`, with `old` at DBPath: the new
\* content of DBPath and the error.  `rmOK` is whether os.Remove removes an
\* existing file (its error is dropped), `sqlOK` whether CREATE TABLE and
\* Prepare succeed, `lost` the inserts that fail, `ixOK` whether CREATE INDEX
\* and the last Commit succeed.  On a file that Remove left in place,
\* CREATE TABLE IF NOT EXISTS keeps the table and its columns, Prepare
\* fails when the number of columns differs, and the inserts append.
buildDatabase(file, old, rmOK, sqlOK, lost, ixOK) ==
    LET base == IF old # NoFile /\ ~rmOK THEN old[1] ELSE EmptyDB
    IN  IF file = NoFile THEN [err |-> "open", store |-> Some(base)]
        ELSE IF file[1] = <<>> THEN [err |-> "headers", store |-> Some(base)]
        ELSE LET records == file[1]
                 headers == [i \in 1..Len(Head(records)) |-> NormaliseHeader(Head(records)[i])]
                 cols    == IF base.table THEN base.cols ELSE headers
             IN  IF HasDuplicates(headers) \/ ~sqlOK \/ Len(cols) # Len(headers)
                 THEN [err |-> "sql", store |-> Some(base)]
                 ELSE [err |-> None,
                       store |-> Some([table   |-> TRUE,
                                       cols    |-> cols,
                                       rows    |-> base.rows \o
                                                   InsertRows(headers, Tail(records), lost, 0),
                                       indexed |-> base.indexed \/
                                                   (ixOK /\ (\E i \in 1..Len(cols) :
                                                                cols[i] = "postcode"))])]

\* what downloadData can do to csvPath, over the outcomes of the network
DownloadResults(year, old) ==
    LET n == IF Str(year) \in DOMAIN MobileDataURLs
             THEN Len(RemoteCSV(MobileDataURLs[Str(year)])) ELSE 0
    IN  {downloadData(year, old, net, copied) :
            net \in DownloadOutcomes, copied \in 0..(IF n = 0 THEN 0 ELSE n - 1)}

\* what buildDatabase can do to DBPath, over the outcomes of the disk; a
\* Remove that fails is followed while the store stays within MaxRows rows
BuildResults(file, old) ==
    LET n == IF file = NoFile \/ file[1] = <<>> THEN 0 ELSE Len(file[1]) - 1
        keeps == old # NoFile /\ old[1].table /\ Len(old[1].rows) + n <= MaxRows
    IN  {buildDatabase(file, old, rmOK, sqlOK, lost, ixOK) :
            rmOK \in (IF keeps THEN BOOLEAN ELSE {TRUE}),
            sqlOK \in BOOLEAN, lost \in SUBSET (1..n), ixOK \in BOOLEAN}

SetupReturn(year, force, e, d, b) ==
    Some([year |-> Str(year), path |-> csvPath(year), force |-> force,
          err |-> e, download |-> d, build |-> b])

\* Setup(year, force) on artifacts c and store d: every (artifacts, store,
\* return) the call can end with
SetupOutcomes(c, d, year, force) ==
    LET p == csvPath(year)
        out(c2, d2, e, dl, bd) ==
            [csv |-> c2, db |-> d2, ret |-> SetupReturn(year, force, e, dl, bd)]
        \* MkdirAll fails
        mkdirFails == {out(c, d, "mkdir", "notreached", "notreached")}
        \* lines 105-111 on the artifact `file`
        build(c2, file, dl) ==
            IF needsBuild(d, force)
            THEN {out(c2, bd.store, bd.err, dl, IF bd.err = None THEN "ok" ELSE "failed") :
                     bd \in BuildResults(file, d)}
            ELSE {out(c2, d, None, dl, "skipped")}
        \* lines 97-103
        download ==
            IF needsDownload(c[p], force)
            THEN UNION { IF dl.err # None
                         THEN {out([c EXCEPT ![p] = dl.file], d, dl.err, "failed", "notreached")}
                         ELSE build([c EXCEPT ![p] = dl.file], dl.file, "ok") :
                         dl \in DownloadResults(year, c[p]) }
            ELSE build(c, c[p], "skipped")
    IN  mkdirFails \cup download

\* Setup(year, force), called while no check is running
Setup(year, force) ==
    /\ mpc # "recv"
    /\ \E o \in SetupOutcomes(csv, db, year, force) :
          /\ csv' = o.csv
          /\ db' = o.db
          /\ setupRet' = o.ret
    /\ UNCHANGED <<cmVars, inVars, nzVars>>

SetupStep == \E year \in Years, force \in BOOLEAN : Setup(year, force)

EmptyDataDir == [p \in CsvPaths |-> NoFile]

InitFS ==
    /\ csv = EmptyDataDir
    /\ db = NoFile
    /\ setupRet = Nil

InitCM ==
    /\ postcodes = <<>>
    /\ results = <<>>
    /\ ch = <<>>
    /\ wpc = <<>>
    /\ wres = <<>>
    /\ wcalls = <<>>
    /\ mpc = "idle"
    /\ received = <<>>

InitNZ ==
    /\ rawPc = <<>>
    /\ checkKey = Nil
    /\ queryKey = Nil

InitSetup == InitFS /\ InitCM /\ InitNZ /\ row = EmptyRow /\ summary = Nil

SpecSetup == InitSetup /\ [][SetupStep]_vars

InitInterpret == InitFS /\ InitCM /\ InitNZ /\ row \in EditedRows(MaxEdits) /\ summary = Nil

SpecInterpret == InitInterpret /\ [][InterpretRow]_vars

(***************************************************************************)
(* ofcom.Manager.QueryPostcode                                             *)
(***************************************************************************)
ColumnIndex(cols, name) == CHOOSE i \in 1..Len(cols) : cols[i] = name

\* the map built from a scanned record
RowMap(cols, record) ==
    [c \in {cols[i] : i \in 1..Len(cols)} |-> record[ColumnIndex(cols, c)]]

\* QueryPostcode(postcode) on the store: every (row, err) it can return.
\* The query and the scan can fail on an unreadable file; with several
\* matching records LIMIT 1 without ORDER BY may return any of them.
QueryPostcode(store, postcode) ==
    IF store = NoFile THEN {[row |-> Nil, err |-> "database not found"]}
    ELSE LET d       == store[1]
             pc      == Normalise(postcode)
             hasCol  == \E i \in 1..Len(d.cols) : d.cols[i] = "postcode"
             matches == {i \in 1..Len(d.rows) :
                            d.rows[i][ColumnIndex(d.cols, "postcode")] = pc}
         IN  {[row |-> Nil, err |-> "sql"]} \cup
             (IF ~d.table \/ ~hasCol THEN {}
              ELSE IF matches = {} THEN {[row |-> Nil, err |-> None]}
              ELSE {[row |-> Some(RowMap(d.cols, d.rows[i])), err |-> None] : i \in matches})

(***************************************************************************)
(* checker.Check and checker.CheckMultiple                                 *)
(***************************************************************************)
ZeroResult ==
    [Postcode |-> "", Valid |-> FALSE, Geographic |-> Nil, Mobile |-> Nil,
     Error |-> "", Note |-> ""]

\* outcomes of postcode.Client.Lookup: data, a 404, a failed request
LookupOutcomes == {"ok", "postcode not found or invalid", "HTTP request failed"}

\* lines 42-51: the Result after the geocoding lookup
CheckLookup(pc, geo) ==
    LET normalised == Normalise(pc)
        result     == [ZeroResult EXCEPT !.Postcode = Str(normalised)]
    IN  IF geo # "ok"
        THEN [result EXCEPT !.Error = "Postcode lookup failed: " \o geo]
        ELSE [result EXCEPT !.Valid = TRUE,
                            !.Geographic = Some([Postcode |-> Str(normalised)])]

returnsAfterLookup_never(geo) == FALSE

\* lines 46-49: Check returns after a failed lookup
returnsAfterLookup(geo) == geo # "ok"

CheckQuery_noNilCheck(result, q) ==
    IF q.err # None
    THEN [result EXCEPT !.Note = "Mobile data unavailable: " \o q.err]
    ELSE [result EXCEPT !.Mobile =
             Some(Interpret(IF q.row = Nil THEN EmptyRow ELSE q.row[1]))]

\* lines 53-65: the Result after QueryPostcode returned q
CheckQuery(result, q) ==
    IF q.err # None
    THEN [result EXCEPT !.Note = "Mobile data unavailable: " \o q.err]
    ELSE IF q.row = Nil
    THEN [result EXCEPT !.Note = "Postcode not found in Ofcom mobile dataset."]
    ELSE [result EXCEPT !.Mobile = Some(Interpret(q.row[1]))]

storeResult_arrival(res, item, n) == [res EXCEPT ![n + 1] = item.res]

\* line 87
storeResult(res, item, n) == [res EXCEPT ![item.idx] = item.res]

\* postcodes given to check: one that both editions have a record for, in
\* another spelling, and one that neither has
PostcodeInputs ==
    { <<"s", "w", "1", "a", " ", "1", "a", "a">>,
      <<"W", "1", "A", "0", "A", "X">> }

RECURSIVE PostcodeLists(_)
PostcodeLists(n) ==
    IF n = 0 THEN {<<>>}
    ELSE LET L == PostcodeLists(n - 1)
         IN  L \cup {Append(l, p) : l \in {x \in L : Len(x) = n - 1}, p \in PostcodeInputs}

\* lines 70-83: the slice, the channel and one goroutine per postcode
CheckMultipleCall(pcs) ==
    /\ mpc # "recv"
    /\ mpc' = "recv"
    /\ postcodes' = pcs
    /\ results' = [i \in 1..Len(pcs) |-> ZeroResult]
    /\ ch' = <<>>
    /\ wpc' = [i \in 1..Len(pcs) |-> "lookup"]
    /\ wres' = [i \in 1..Len(pcs) |-> ZeroResult]
    /\ wcalls' = [i \in 1..Len(pcs) |-> <<>>]
    /\ received' = <<>>
    /\ UNCHANGED <<fsVars, inVars, nzVars>>

\* goroutine i: Check up to the return of Lookup
GoLookup(i) ==
    /\ wpc[i] = "lookup"
    /\ \E geo \in LookupOutcomes :
          /\ wres' = [wres EXCEPT ![i] = CheckLookup(postcodes[i], geo)]
          /\ wcalls' = [wcalls EXCEPT ![i] = Append(@, [call |-> "Lookup", outcome |-> geo])]
          /\ wpc' = [wpc EXCEPT ![i] = IF returnsAfterLookup(geo) THEN "send" ELSE "query"]
    /\ UNCHANGED <<postcodes, results, ch, mpc, received, fsVars, inVars, nzVars>>

\* goroutine i: the rest of Check, from QueryPostcode to the return
GoQuery(i) ==
    /\ wpc[i] = "query"
    /\ \E q \in QueryPostcode(db, Normalise(postcodes[i])) :
          /\ wres' = [wres EXCEPT ![i] = CheckQuery(@, q)]
          /\ wcalls' = [wcalls EXCEPT ![i] =
                           Append(@, [call |-> "QueryPostcode",
                                      outcome |-> IF q.err # None THEN q.err
                                                  ELSE IF q.row = Nil THEN "nil" ELSE "row"])]
          /\ wpc' = [wpc EXCEPT ![i] = "send"]
    /\ UNCHANGED <<postcodes, results, ch, mpc, received, fsVars, inVars, nzVars>>

\* goroutine i: the send; the channel has room for every goroutine
GoSend(i) ==
    /\ wpc[i] = "send"
    /\ Len(ch) < Len(postcodes)
    /\ ch' = Append(ch, [idx |-> i, res |-> wres[i]])
    /\ wpc' = [wpc EXCEPT ![i] = "done"]
    /\ UNCHANGED <<postcodes, results, wres, wcalls, mpc, received, fsVars, inVars, nzVars>>

receivesLeft_oneShort(n, total) == n + 1 < total

\* line 85: `for range postcodes` receives once per postcode
receivesLeft(n, total) == n < total

\* lines 85-88: one iteration of the receive loop
Receive ==
    /\ mpc = "recv"
    /\ receivesLeft(Len(received), Len(postcodes))
    /\ ch # <<>>
    /\ results' = storeResult(results, Head(ch), Len(received))
    /\ received' = Append(received, Head(ch).idx)
    /\ ch' = Tail(ch)
    /\ UNCHANGED <<postcodes, wpc, wres, wcalls, mpc, fsVars, inVars, nzVars>>

\* line 89
Return ==
    /\ mpc = "recv"
    /\ ~receivesLeft(Len(received), Len(postcodes))
    /\ mpc' = "returned"
    /\ UNCHANGED <<postcodes, results, ch, wpc, wres, wcalls, received, fsVars, inVars, nzVars>>

\* the data directory when check traffic starts: setup has not been run, or
\* has been run once with the default --force=false
InitCheck ==
    /\ \E o \in {[csv |-> EmptyDataDir, db |-> NoFile, ret |-> Nil]} \cup
                UNION {SetupOutcomes(EmptyDataDir, NoFile, y, FALSE) : y \in Years} :
          /\ csv = o.csv
          /\ db = o.db
          /\ setupRet = o.ret
    /\ InitCM
    /\ InitNZ
    /\ row = EmptyRow
    /\ summary = Nil

NextCheck ==
    \/ \E pcs \in PostcodeLists(MaxN) : CheckMultipleCall(pcs)
    \/ \E i \in 1..Len(postcodes) : GoLookup(i)
    \/ \E i \in 1..Len(postcodes) : GoQuery(i)
    \/ \E i \in 1..Len(postcodes) : GoSend(i)
    \/ Receive
    \/ Return

SpecCheck == InitCheck /\ [][NextCheck]_vars

\* goroutine i moves on: from the lookup to the query or, after a failed
\* lookup, to the send; from the query to the send; from the send, when the
\* channel has room, to its end.  These are the steps GoLookup(i),
\* GoQuery(i) and GoSend(i) without the Result they build.
Advance(i) ==
    /\ i \in 1..Len(postcodes)
    /\ \E p \in {"query", "send", "done"} :
          /\ \/ wpc[i] = "lookup" /\ p \in {"query", "send"}
             \/ wpc[i] = "query" /\ p = "send"
             \/ wpc[i] = "send" /\ Len(ch) < Len(postcodes) /\ p = "done"
          /\ wpc' = [wpc EXCEPT ![i] = p]

\* the caller of CheckMultiple inside the call
Caller == Receive \/ Return

\* the scheduler runs every goroutine that can run, and Lookup and
\* QueryPostcode return: a goroutine that can move on does, and so does
\* the caller
FairCheck ==
    /\ WF_vars(Caller)
    /\ \A i \in 1..MaxN : WF_wpc(Advance(i))

\* the data directory when a batch starts: setup has not been run, or has
\* been run once and ingested the 2023 edition completely
InitBatch ==
    /\ \E o \in {[csv |-> EmptyDataDir, db |-> NoFile, ret |-> Nil]} \cup
                {x \in SetupOutcomes(EmptyDataDir, NoFile, Y2023, FALSE) :
                    x.ret[1].err = None /\ x.db[1].indexed /\ Len(x.db[1].rows) = 2} :
          /\ csv = o.csv
          /\ db = o.db
          /\ setupRet = o.ret
    /\ InitCM
    /\ InitNZ
    /\ row = EmptyRow
    /\ summary = Nil

SpecCheckFair == InitBatch /\ [][NextCheck]_vars /\ FairCheck

(***************************************************************************)
(* postcode.Normalise, as Check applies it to the caller's string and      *)
(* QueryPostcode applies the same expression to what Check passes on       *)
(***************************************************************************)
\* the characters of the enumerated strings: letters in both cases, a
\* digit, a space and a tab
PostcodeChars == {"a", "A", "b", "1", " ", "\t"}

RECURSIVE StringsUpTo(_)
StringsUpTo(n) ==
    IF n = 0 THEN {<<>>}
    ELSE LET S == StringsUpTo(n - 1)
         IN  S \cup {Append(s, c) : s \in {x \in S : Len(x) = n - 1}, c \in PostcodeChars}

\* strings a caller passes: every short string, the postcodes given to
\* check, and the spellings of the datasets' postcode cells
PostcodeStrings ==
    StringsUpTo(MaxLen) \cup PostcodeInputs \cup
    { <<"S", "W", "1", "A", "1", "A", "A">>,
      <<"S", "W", "1", "A", " ", "1", "A", "A">>,
      <<" ", "s", "w", "1", "a", " ", " ", "1", "A", "A", "\n">>,
      <<"s", "w", "1", "a", "\t", "1", "a", "a">> }

\* checker.go line 42
CheckNormalise ==
    /\ checkKey = Nil
    /\ checkKey' = Some(Normalise(rawPc))
    /\ UNCHANGED <<rawPc, queryKey, fsVars, cmVars, inVars>>

\* checker.go line 53 and ofcom.go line 266
QueryNormalise ==
    /\ checkKey # Nil
    /\ queryKey = Nil
    /\ queryKey' = Some(Normalise(checkKey[1]))
    /\ UNCHANGED <<rawPc, checkKey, fsVars, cmVars, inVars>>

InitNormalise ==
    /\ InitFS
    /\ InitCM
    /\ row = EmptyRow
    /\ summary = Nil
    /\ rawPc \in PostcodeStrings
    /\ checkKey = Nil
    /\ queryKey = Nil

NextNormalise == CheckNormalise \/ QueryNormalise

SpecNormalise == InitNormalise /\ [][NextNormalise]_vars

(***************************************************************************)
(* Properties of Check and CheckMultiple                                   *)
(***************************************************************************)
\* the Results that exist: built by a Check that has returned, in the
\* channel, or in the slice CheckMultiple returned
Returned(i) == wpc[i] \in {"send", "done"}

LookupFailed(i) == wcalls[i] # <<>> /\ wcalls[i][1].outcome # "ok"

Queried(i) == \E k \in 1..Len(wcalls[i]) : wcalls[i][k].call = "QueryPostcode"

\* C1: CheckMultiple returns as many Results as postcodes, and element i is
\* the Result goroutine i's Check built for postcode i, in whatever order the
\* goroutines delivered.
C1_OrderPreserved ==
    mpc = "returned" =>
        /\ Len(results) = Len(postcodes)
        /\ \A i \in 1..Len(postcodes) :
              /\ results[i] = wres[i]
              /\ results[i].Postcode = Str(Normalise(postcodes[i]))

\* two different postcodes, the second delivered first
C1_Witness ==
    /\ mpc = "returned"
    /\ received = <<2, 1>>
    /\ postcodes[1] # postcodes[2]
    /\ results[1].Valid /\ ~results[2].Valid

\* C2: after a failed lookup Check returns valid=false, an error message,
\* no Mobile and no Geographic, without calling QueryPostcode; so no
\* Result has valid=false together with a Mobile summary.
C2_LookupFailure ==
    /\ \A i \in 1..Len(wpc) :
          LookupFailed(i) =>
              /\ Returned(i)
              /\ ~wres[i].Valid
              /\ wres[i].Error # ""
              /\ wres[i].Mobile = Nil
              /\ wres[i].Geographic = Nil
              /\ ~Queried(i)
    /\ \A i \in 1..Len(wpc) : (Returned(i) /\ ~wres[i].Valid) => wres[i].Mobile = Nil
    /\ \A k \in 1..Len(ch) : ~ch[k].res.Valid => ch[k].res.Mobile = Nil
    /\ \A i \in 1..Len(results) : ~results[i].Valid => results[i].Mobile = Nil

\* a batch returned in which the lookup failed for a postcode that the
\* store has a row for
C2_Witness ==
    /\ mpc = "returned"
    /\ \E i, j \in 1..Len(postcodes) :
          /\ postcodes[i] = postcodes[j]
          /\ LookupFailed(i)
          /\ results[i].Error # ""
          /\ results[j].Mobile # Nil

QueryOutcome(i) == wcalls[i][Len(wcalls[i])].outcome

\* C3: when the lookup succeeds and QueryPostcode fails (as it does when the
\* store file is absent) or finds no row, Check returns valid=true with
\* Geographic, a note, no Mobile and no error; Mobile is set only when a row
\* was returned, and then the note is empty.
C3_DatasetMiss ==
    \A i \in 1..Len(wpc) :
        /\ (Returned(i) /\ Queried(i)) =>
              /\ (QueryOutcome(i) # "row") =>
                    /\ wres[i].Valid
                    /\ wres[i].Geographic # Nil
                    /\ wres[i].Note # ""
                    /\ wres[i].Mobile = Nil
                    /\ wres[i].Error = ""
              /\ (db = NoFile) => QueryOutcome(i) = "database not found"
        /\ (Returned(i) /\ wres[i].Mobile # Nil) =>
              /\ Queried(i)
              /\ QueryOutcome(i) = "row"
              /\ wres[i].Note = ""

\* a batch returned with one postcode the store has no row for and one it
\* has a row for
C3_Witness ==
    /\ mpc = "returned"
    /\ \E i, j \in 1..Len(postcodes) :
          /\ Queried(i) /\ QueryOutcome(i) = "nil"
          /\ results[i].Note # "" /\ results[i].Valid
          /\ results[j].Mobile # Nil

(***************************************************************************)
(* Properties of Setup                                                     *)
(***************************************************************************)
\* a step that is a call of Setup; setupRet' then describes the call
IsSetupStep == setupRet' # Nil /\ UNCHANGED <<cmVars, inVars, nzVars>>

\* C4: Setup(edition, force=false) downloads only if the edition's artifact
\* file is absent and builds only if the store file is absent; when both
\* exist it changes neither, and a successful call leaves both in place, so
\* repeating a successful non-forced Setup changes nothing.
C4_SetupIdempotent ==
    [][ LET r == setupRet'[1]
        IN  (IsSetupStep /\ ~r.force) =>
              /\ r.err = "mkdir" => UNCHANGED <<csv, db>>
              /\ r.err # "mkdir" =>
                   /\ (r.download # "skipped") = (csv[r.path] = NoFile)
                   /\ (r.build \in {"ok", "failed"}) => db = NoFile
                   /\ (r.build = "skipped") => db # NoFile
                   /\ (r.download = "skipped") => csv' = csv
                   /\ (r.build \in {"skipped", "notreached"}) => db' = db
                   /\ (csv[r.path] # NoFile /\ db # NoFile) =>
                        (csv' = csv /\ db' = db /\ r.err = None)
                   /\ (r.err = None) => (csv'[r.path] # NoFile /\ db' # NoFile)
              /\ (/\ setupRet # Nil
                  /\ setupRet[1].err = None
                  /\ ~setupRet[1].force
                  /\ setupRet[1].year = r.year) =>
                   (UNCHANGED <<csv, db>> /\ r.err \in {None, "mkdir"})
      ]_vars

\* a non-forced Setup has been repeated on an existing artifact and store
C4_Witness ==
    /\ setupRet # Nil
    /\ ~setupRet[1].force
    /\ setupRet[1].err = None
    /\ setupRet[1].download = "skipped"
    /\ setupRet[1].build = "skipped"
    /\ csv[setupRet[1].path] # NoFile
    /\ db # NoFile

\* the store a complete ingest of an edition's artifact gives
CompleteStores ==
    {buildDatabase(Some(RemoteCSV(MobileDataURLs[y])), NoFile, TRUE, TRUE, {}, TRUE).store :
        y \in DOMAIN MobileDataURLs}

\* C5: Setup returns success only when the indexed store exists and holds a
\* complete dataset: the table, every parsable row and the postcode index.
C5_NoPartialDataset ==
    (setupRet # Nil /\ setupRet[1].err = None) => db \in CompleteStores

\* C6: Setup with an edition that is not in MobileDataURLs returns an error.
C6_UnknownEditionFails ==
    (setupRet # Nil /\ setupRet[1].year \notin DOMAIN MobileDataURLs) =>
        setupRet[1].err # None

(***************************************************************************)
(* Properties of Interpret                                                 *)
(***************************************************************************)
OperatorNames == <<"EE", "O2", "Three", "Vodafone">>

OperatorPrefix == <<"ee", "o2", "three", "vodafone">>

Metrics == {"voice", "4g", "5g"}

\* the two column names of an operator's metric, in priority order
PrimaryColumn(i, m) == OperatorPrefix[i] \o "_" \o m

AliasColumn(i, m) ==
    IF m = "voice" THEN OperatorPrefix[i] \o "_voice_indoor" ELSE OperatorPrefix[i] \o m

Present(r, k) == k \in DOMAIN r /\ r[k] # <<>>

ResolvedValue(r, i, m) ==
    IF Present(r, PrimaryColumn(i, m)) THEN r[PrimaryColumn(i, m)]
    ELSE IF Present(r, AliasColumn(i, m)) THEN r[AliasColumn(i, m)]
    ELSE <<>>

Flag(o, m) == IF m = "voice" THEN o.HasVoice ELSE IF m = "4g" THEN o.HasFourG ELSE o.HasFiveG

Display(o, m) == IF m = "voice" THEN o.Voice ELSE IF m = "4g" THEN o.FourG ELSE o.FiveG

\* what each cell text of the input rows denotes
AtLeastHalf ==
    { <<"5", "e", "-", "1">>, <<"0", ".", "5">>, <<"0", ".", "8">>, <<"1">>, <<"1", ".", "0">>,
      <<"0", ".", "9", "5">>, <<"0", ".", "8", "8">>, <<"0", ".", "7", "2">>,
      <<"0", ".", "6", "0">>, <<"0", ".", "5", "5">>, <<"0", ".", "9", "0">>,
      <<"0", ".", "8", "5">> }

BelowHalf ==
    { <<"0", ".", "3">>, <<"0", ".", "4", "9", "9", "9", "9", "9">>, <<"0", ".", "0">>,
      <<"-", "0", ".", "7">> }

NotNumbers == { <<>>, <<" ", "0", ".", "9">>, <<"a", "b", "c">> }

\* C7: covered is true exactly when the resolved value is a number >= 0.5;
\* 0.3 and 0.499999 give false, 0.5 gives true, absent, empty and
\* unparsable values give false.
C7_CoveredThreshold ==
    summary # Nil =>
        \A i \in 1..4, m \in Metrics :
            LET v == ResolvedValue(row, i, m)
            IN  /\ v \in AtLeastHalf \cup BelowHalf \cup NotNumbers
                /\ Flag(summary[1].Operators[i], m) = (v \in AtLeastHalf)

\* one row holds 0.5, covered, and 0.499999, not covered
C7_Witness ==
    /\ summary # Nil
    /\ \E i, j \in 1..4, m, n \in Metrics :
          /\ ResolvedValue(row, i, m) = <<"0", ".", "5">>
          /\ Flag(summary[1].Operators[i], m)
          /\ ResolvedValue(row, j, n) = <<"0", ".", "4", "9", "9", "9", "9", "9">>
          /\ ~Flag(summary[1].Operators[j], n)

\* C8: Interpret returns exactly the four operators EE, O2, Three, Vodafone
\* in that order, whatever columns the row has.
C8_FourOperatorsFixedOrder ==
    summary # Nil =>
        [i \in 1..Len(summary[1].Operators) |-> summary[1].Operators[i].Name] = OperatorNames

\* the empty row has been interpreted
C8_Witness == summary # Nil /\ DOMAIN row = {}

\* C9: FourGCount and FiveGCount equal the numbers of operators of the
\* returned list with HasFourG and with HasFiveG, both within 0..4.
C9_CountsMatchFlags ==
    summary # Nil =>
        LET ops == summary[1].Operators
        IN  /\ summary[1].Overall.FourGCount =
                  Cardinality({i \in 1..Len(ops) : ops[i].HasFourG})
            /\ summary[1].Overall.FiveGCount =
                  Cardinality({i \in 1..Len(ops) : ops[i].HasFiveG})
            /\ summary[1].Overall.FourGCount \in 0..4
            /\ summary[1].Overall.FiveGCount \in 0..4

\* a row where an operator without 4G comes before operators with 4G
C9_Witness ==
    /\ summary # Nil
    /\ ~summary[1].Operators[1].HasFourG
    /\ summary[1].Overall.FourGCount = 3
    /\ summary[1].Overall.FiveGCount = 2

\* the whole-number percentage of each numeric cell text of the input rows
PercentOf(v) ==
    CASE v = <<"0", ".", "5">> -> "50%"
      [] v = <<"0", ".", "8">> -> "80%"
      [] v = <<"1">> -> "100%"
      [] v = <<"5", "e", "-", "1">> -> "50%"
      [] v = <<"1", ".", "0">> -> "100%"
      [] v = <<"0", ".", "9", "5">> -> "95%"
      [] v = <<"0", ".", "8", "8">> -> "88%"
      [] v = <<"0", ".", "7", "2">> -> "72%"
      [] v = <<"0", ".", "6", "0">> -> "60%"
      [] v = <<"0", ".", "5", "5">> -> "55%"
      [] v = <<"0", ".", "9", "0">> -> "90%"
      [] v = <<"0", ".", "8", "5">> -> "85%"
      [] v = <<"0", ".", "3">> -> "30%"
      [] v = <<"0", ".", "4", "9", "9", "9", "9", "9">> -> "50%"
      [] v = <<"0", ".", "0">> -> "0%"
      [] v = <<"-", "0", ".", "7">> -> "-70%"
      [] OTHER -> "N/A"

\* C10: with no alias column present and non-empty, covered is false and the
\* display is "N/A"; flag and display come from the same resolved value, the
\* first alias present and non-empty, so covered never goes with "N/A".
C10_MissingGivesSentinel ==
    summary # Nil =>
        \A i \in 1..4, m \in Metrics :
            LET v == ResolvedValue(row, i, m)
                o == summary[1].Operators[i]
            IN  /\ v = <<>> => (~Flag(o, m) /\ Display(o, m) = "N/A")
                /\ Flag(o, m) => Display(o, m) # "N/A"
                /\ Display(o, m) = PercentOf(v)
                /\ Flag(o, m) = (v \in AtLeastHalf)

\* a metric resolved through its second alias because the first is empty,
\* next to a metric with no column at all
C10_Witness ==
    /\ summary # Nil
    /\ \E i, j \in 1..4, m, n \in Metrics :
          /\ PrimaryColumn(i, m) \in DOMAIN row
          /\ row[PrimaryColumn(i, m)] = <<>>
          /\ Flag(summary[1].Operators[i], m)
          /\ Display(summary[1].Operators[i], m) = "80%"
          /\ PrimaryColumn(j, n) \notin DOMAIN row
          /\ AliasColumn(j, n) \notin DOMAIN row
          /\ Display(summary[1].Operators[j], n) = "N/A"

(***************************************************************************)
(* Properties of Normalise                                                 *)
(***************************************************************************)
IsLowerLetter(c) == \E i \in 1..26 : LowerCase[i] = c

\* s without its whitespace, letters folded to one case
Folded(s) == ToLower(SelectSeq(s, LAMBDA c : ~IsSpace(c)))

\* s and t differ only in letter case or in whitespace
DifferOnlyInCaseOrSpace(s, t) == Folded(s) = Folded(t)

\* s from its first to its last character that is not whitespace
Core(s) ==
    LET I == {i \in 1..Len(s) : ~IsSpace(s[i])}
    IN  IF I = {} THEN <<>>
        ELSE SubSeq(s, CHOOSE i \in I : \A j \in I : i <= j,
                       CHOOSE i \in I : \A j \in I : i >= j)

\* s and t differ only in letter case, in space characters, or in leading
\* or trailing whitespace
DifferOnlyInCaseOrSpaces(s, t) ==
    ToLower(SelectSeq(Core(s), LAMBDA c : c # " ")) =
    ToLower(SelectSeq(Core(t), LAMBDA c : c # " "))

SW1A1AA == <<"S", "W", "1", "A", "1", "A", "A">>

KeyOf(p) ==
    CASE p = <<"S", "W", "1", "A", " ", "1", "A", "A">> -> SW1A1AA
      [] p = <<"s", "w", "1", "a", " ", "1", "a", "a">> -> SW1A1AA
      [] p = <<"s", "w", "1", "a", "1", "a", "a">>      -> SW1A1AA
      [] p = <<"e", "c", "1", "a", "1", "b", "b">>      -> <<"E", "C", "1", "A", "1", "B", "B">>
      [] p = <<"W", "1", "A", "0", "A", "X">>           -> <<"W", "1", "A", "0", "A", "X">>
      [] OTHER                                          -> <<"?">>

\* the data records of a raw artifact that have as many fields as the header
WellFormed(raw) == SelectSeq(Tail(raw), LAMBDA r : Len(r) = Len(Head(raw)))

\* stored record s is raw record r with its postcode cell replaced by its key
StoredFrom(s, r, pcx) ==
    /\ Len(s) = Len(r)
    /\ \A c \in 1..Len(s) : s[c] = IF c = pcx THEN KeyOf(r[c]) ELSE r[c]

\* C12: in a store that Setup built, every stored row is a dataset row with
\* its postcode cell replaced by its key, in dataset order when no insert
\* was lost; a query for q that returns without error returns a stored row
\* whose postcode is the key of q if and only if some ingested row has that
\* key, and nil otherwise; and the Postcode of the MobileSummary equals the
\* Postcode of the Result.
C12_SameNormalisation ==
    (db # NoFile /\ db[1].table) =>
        LET d   == db[1]
            raw == WellFormed(csv[setupRet[1].path][1])
            pcx == ColumnIndex(d.cols, "postcode")
        IN  /\ \A k \in 1..Len(d.rows) :
                  \E j \in 1..Len(raw) : StoredFrom(d.rows[k], raw[j], pcx)
            /\ Len(d.rows) = Len(raw) =>
                  \A k \in 1..Len(raw) : StoredFrom(d.rows[k], raw[k], pcx)
            /\ \A i \in 1..Len(wpc) :
                  (Returned(i) /\ Queried(i) /\ QueryOutcome(i) \in {"row", "nil"}) =>
                      LET hits == {k \in 1..Len(d.rows) : d.rows[k][pcx] = KeyOf(postcodes[i])}
                      IN  /\ (QueryOutcome(i) = "row") = (hits # {})
                          /\ Len(d.rows) = Len(raw) =>
                                ((QueryOutcome(i) = "row") =
                                 (\E j \in 1..Len(raw) : KeyOf(raw[j][pcx]) = KeyOf(postcodes[i])))
                          /\ (QueryOutcome(i) = "nil") = (wres[i].Mobile = Nil)
                          /\ wres[i].Postcode = Str(KeyOf(postcodes[i]))
                          /\ QueryOutcome(i) = "row" =>
                                /\ wres[i].Mobile[1].Postcode = wres[i].Postcode
                                /\ \E k \in hits :
                                      wres[i].Mobile[1] = Interpret(RowMap(d.cols, d.rows[k]))

\* a batch returned on a completely ingested 2023 store: "sw1a 1aa" found
\* the row ingested from the cell "SW1A 1AA", another postcode found none
C12_Witness ==
    /\ mpc = "returned"
    /\ db # NoFile /\ db[1].table
    /\ setupRet[1].year = "2023"
    /\ Len(db[1].rows) = Len(WellFormed(csv[setupRet[1].path][1]))
    /\ \E i, j \in 1..Len(postcodes) :
          /\ postcodes[i] = <<"s", "w", "1", "a", " ", "1", "a", "a">>
          /\ results[i].Mobile # Nil
          /\ results[i].Mobile[1].Postcode = "SW1A1AA"
          /\ results[i].Mobile[1].Operators[1].FourG = "80%"
          /\ Queried(j) /\ QueryOutcome(j) = "nil"

(***************************************************************************)
(* Properties of a rebuild                                                 *)
(***************************************************************************)
\* the columns and the rows of each edition's dataset as a store holds them
ExpectedCols(year) ==
    CASE year = "2023" -> <<"postcode", "ee_4g", "o2_4g">>
      [] year = "2022" -> <<"postcode", "ee4g">>
      [] OTHER         -> <<>>

ExpectedRows(year) ==
    CASE year = "2023" -> << <<SW1A1AA, <<"0", ".", "8">>, <<"0", ".", "3">> >>,
                             << <<"E", "C", "1", "A", "1", "B", "B">>, <<"0", ".", "5">>, <<>> >> >>
      [] year = "2022" -> << <<SW1A1AA, <<"0", ".", "3">> >> >>
      [] OTHER         -> <<>>

\* s is t with some elements left out
RECURSIVE IsSubSeq(_, _)
IsSubSeq(s, t) ==
    IF s = <<>> THEN TRUE
    ELSE IF t = <<>> THEN FALSE
    ELSE IF Head(s) = Head(t) THEN IsSubSeq(Tail(s), Tail(t))
    ELSE IsSubSeq(s, Tail(t))

\* C13: after a successful Setup(edition, force=true) the store holds the
\* columns of that edition and exactly the rows ingested from its artifact,
\* nothing of the store that was there before, and the artifacts of the
\* other editions are as they were; a Setup without force leaves an existing
\* store unchanged.
C13_RebuildReplaces ==
    [][ LET r == setupRet'[1]
        IN  IsSetupStep =>
              /\ (r.force /\ r.err = None) =>
                    /\ db' # NoFile
                    /\ db'[1].table
                    /\ db'[1].cols = ExpectedCols(r.year)
                    /\ IsSubSeq(db'[1].rows, ExpectedRows(r.year))
                    /\ \A p \in DOMAIN csv : p # r.path => csv'[p] = csv[p]
              /\ (~r.force /\ db # NoFile) => db' = db
      ]_vars

(***************************************************************************)
(* Properties of the fan-out in CheckMultiple                              *)
(***************************************************************************)
Delivered(i) == wpc[i] = "done"

InChannel == {ch[k].idx : k \in 1..Len(ch)}

Written == {received[k] : k \in 1..Len(received)}

\* each index is sent at most once and received at most once, a goroutine
\* that has sent is in the channel or received, a goroutine at its send
\* finds room in the channel, and the call returns only when every index
\* has been delivered and written, with nothing left in the channel
FanInState ==
    /\ Cardinality(InChannel) = Len(ch)
    /\ Cardinality(Written) = Len(received)
    /\ InChannel \cap Written = {}
    /\ InChannel \cup Written = {i \in 1..Len(wpc) : Delivered(i)}
    /\ \A i \in 1..Len(wpc) : wpc[i] = "send" => Len(ch) < Len(postcodes)
    /\ \A i \in Written : results[i] = wres[i]
    /\ \A i \in 1..Len(results) : i \notin Written => results[i] = ZeroResult
    /\ mpc = "returned" =>
          /\ \A i \in 1..Len(postcodes) : Delivered(i)
          /\ Written = 1..Len(postcodes)
          /\ ch = <<>>

\* inside a call, a step moves at most one goroutine, leaves every Result
\* that a Check has returned as it is, and writes results[j] only with the
\* delivery of index j
FanInStep ==
    mpc = "recv" =>
        /\ Cardinality({i \in 1..Len(wpc) : wpc'[i] # wpc[i] \/ wres'[i] # wres[i]}) <= 1
        /\ \A i \in 1..Len(wpc) : Returned(i) => wres'[i] = wres[i]
        /\ \A j \in 1..Len(results) :
              results'[j] # results[j] =>
                  (received' = Append(received, j) /\ results'[j] = wres[j])

\* C14: CheckMultiple returns for every N >= 0 once every Check returns,
\* and only after all N goroutines delivered; each index is delivered and
\* written exactly once; an item that fails or is slow leaves every other
\* item's Result alone; no goroutine is blocked on the channel.
C14_WaitsForAll ==
    /\ []FanInState
    /\ [][FanInStep]_vars
    /\ (mpc = "recv") ~> (mpc = "returned")

\* a batch returned in which the first item's lookup failed and was
\* delivered last, and the second item has its Mobile summary
C14_Witness ==
    /\ mpc = "returned"
    /\ Len(postcodes) = 2
    /\ received = <<2, 1>>
    /\ LookupFailed(1)
    /\ results[1].Error # ""
    /\ results[2].Valid
    /\ results[2].Mobile # Nil
    /\ wpc = <<"done", "done">>

====
